---- MODULE Spec2Model ----
(***************************************************************************)
(* chatgpt-to-obsidian-markdown: the conversion of an exported archive     *)
(* into one markdown document per conversation (src/index.js).             *)
(*                                                                         *)
(* A JavaScript string is a sequence of tokens.  A token is an indivisible *)
(* lexeme: one punctuation character ("#", ">", "[", ...), one whitespace  *)
(* character (" ", "\n"), one word ("Reasoning"), one quoted JSON string   *)
(* ("\"search_query\"") or one absolute URL ("https://a.io").  Regular     *)
(* expressions of the source are evaluated on tokens.                      *)
(***************************************************************************)
EXTENDS Integers, Sequences, FiniteSets, TLC

VARIABLES json, files, log, pc, ci, error,
          filePath, title, metadata, orderedMessages, mi,
          inCallout, parts, markdownContent,
          ordered, stack

vars == <<json, files, log, pc, ci, error, filePath, title, metadata,
          orderedMessages, mi, inCallout, parts, markdownContent, ordered, stack>>

(***************************************************************************)
(* Bounds of the model.                                                    *)
(***************************************************************************)
MaxConvs == 2
MaxMsgs == 2
MaxBodyMsgs == 3
\* Walk runs: keys of a mapping, child entries of a mapping in all, and the
\* depth of the call stack at which the engine raises a RangeError.
MaxNodes == 3
MaxEdges == 2
MaxStack == 6
\* Render runs: segments of a text and citations of a message.
MaxSegs == 2
MaxCites == 2

(***************************************************************************)
(* String primitives.                                                      *)
(***************************************************************************)
NL == <<"\n">>
NLNL == <<"\n", "\n">>
SP == <<" ">>
\* The token FENCE3 is the three-backtick code fence, BACKTICK one backtick.
FENCE == <<"FENCE3">>
WS == {" ", "\n", "    "}
UrlTokens == {"https://a.io", "https://b.io/p"}
QuotedTokens == {"\"search_query\"", "\"open\"", "\"url\"", "\"find\"",
                 "\"click\"", "\"browser\"", "\"code_interpreter\"", "\"q\""}
PUA == "\\uE200"

\* A value that is absent in the archive (JavaScript undefined).
Undef == <<"\\undefined">>
Has(r, k) == k \in DOMAIN r
Field(r, k) == IF k \in DOMAIN r THEN r[k] ELSE Undef
\* Template-literal and "+" coercion of a possibly undefined string.
Str(v) == IF v = Undef THEN <<"undefined">> ELSE v
Truthy(v) == v # Undef /\ v # <<>>

IsWS(c) == c \in WS
NotWS(c) == c \notin WS
SetMin(S) == CHOOSE x \in S : \A y \in S : x <= y
SetMax(S) == CHOOSE x \in S : \A y \in S : x >= y

\* String.prototype.trim
Trim(s) ==
  LET keep == {i \in 1..Len(s) : ~IsWS(s[i])}
  IN IF keep = {} THEN <<>> ELSE SubSeq(s, SetMin(keep), SetMax(keep))

StartsWith(s, p) == Len(s) >= Len(p) /\ SubSeq(s, 1, Len(p)) = p

\* String.prototype.split("\n")
RECURSIVE Split(_)
Split(s) ==
  LET nl == {i \in 1..Len(s) : s[i] = "\n"}
  IN IF nl = {} THEN <<s>>
     ELSE <<SubSeq(s, 1, SetMin(nl) - 1)>> \o Split(SubSeq(s, SetMin(nl) + 1, Len(s)))

\* Array.prototype.join(sep)
RECURSIVE Join(_, _)
Join(ss, sep) ==
  IF ss = <<>> THEN <<>>
  ELSE IF Len(ss) = 1 THEN ss[1]
  ELSE ss[1] \o sep \o Join(Tail(ss), sep)

\* s.slice(i - 1) in JavaScript numbering: the suffix from position i.
From(s, i) == SubSeq(s, i, Len(s))

(***************************************************************************)
(* sanitizeFileName, wrapHtmlTagsInBackticks, wrapLinksInMarkdown, indent, *)
(* blockquote                                                              *)
(***************************************************************************)
ReservedChars == {"<", ">", ":", "\"", "/", "\\", "|", "?", "*", "\n"}

\* .replace(/\s+/g, " ")
RECURSIVE CollapseWS(_)
CollapseWS(s) ==
  IF s = <<>> THEN <<>>
  ELSE IF IsWS(s[1])
       THEN LET rest == {i \in 1..Len(s) : ~IsWS(s[i])}
            IN IF rest = {} THEN SP
               ELSE SP \o CollapseWS(From(s, SetMin(rest)))
       ELSE <<s[1]>> \o CollapseWS(Tail(s))

sanitizeFileName(t) ==
  Trim(CollapseWS([i \in 1..Len(t) |-> IF t[i] \in ReservedChars THEN " " ELSE t[i]]))

\* text.replace(/<[^>]+>/g, ...): each tag is wrapped in backticks
RECURSIVE wrapHtmlTagsInBackticks(_)
wrapHtmlTagsInBackticks(s) ==
  IF s = <<>> THEN <<>>
  ELSE LET close == {j \in 2..Len(s) : s[j] = ">"}
       IN IF s[1] = "<" /\ close # {} /\ SetMin(close) > 2
          THEN <<"BACKTICK">> \o SubSeq(s, 1, SetMin(close)) \o <<"BACKTICK">>
               \o wrapHtmlTagsInBackticks(From(s, SetMin(close) + 1))
          ELSE <<s[1]>> \o wrapHtmlTagsInBackticks(Tail(s))

\* text.replace(/https?:\/\/\S+/g, ...): each match url becomes [url](url)
RECURSIVE wrapLinksInMarkdown(_)
wrapLinksInMarkdown(s) ==
  IF s = <<>> THEN <<>>
  ELSE IF s[1] \in UrlTokens
       THEN LET stop == {j \in 2..Len(s) : IsWS(s[j])}
                e == IF stop = {} THEN Len(s) ELSE SetMin(stop) - 1
                url == SubSeq(s, 1, e)
            IN <<"[">> \o url \o <<"]", "(">> \o url \o <<")">>
               \o wrapLinksInMarkdown(From(s, e + 1))
       ELSE <<s[1]>> \o wrapLinksInMarkdown(Tail(s))

RECURSIVE FlatMap4(_)
FlatMap4(ls) ==
  IF ls = <<>> THEN <<>>
  ELSE (IF Trim(ls[1]) # <<>> THEN <<"    ">> \o ls[1] \o NL ELSE <<>>)
       \o FlatMap4(Tail(ls))

indent(s) == FlatMap4(Split(s))

blockquote(s) ==
  LET ls == Split(s)
  IN Join([i \in 1..Len(ls) |->
             IF ls[i] # <<>> THEN <<">", " ">> \o ls[i] ELSE <<">">>], NL)

(***************************************************************************)
(* Citation resolver: safeTitle, extractSearchResults, buildCitationMap,   *)
(* replaceCitationPlaceholders, extractCitations                           *)
(***************************************************************************)
\* url.split("/").pop(): the path of a URL token lies inside the token.
LastSegment(tok) ==
  CASE tok = "https://a.io" -> "a.io"
    [] tok = "https://b.io/p" -> "p"
    [] OTHER -> tok

urlPop(url) ==
  LET cut == {i \in 1..Len(url) : url[i] = "/"}
      tail == IF cut = {} THEN url ELSE From(url, SetMax(cut) + 1)
  IN IF tail = <<>> THEN <<>>
     ELSE SubSeq(tail, 1, Len(tail) - 1) \o <<LastSegment(tail[Len(tail)])>>

safeTitle(url, t) ==
  LET tt == Trim(IF Truthy(t) THEN t ELSE <<>>)
  IN IF tt # <<>> THEN tt ELSE urlPop(url)

MdLink(label, url) == <<"[">> \o label \o <<"]", "(">> \o url \o <<")">>

RECURSIVE EntryLinks(_)
EntryLinks(es) ==
  IF es = <<>> THEN <<>>
  ELSE (IF Truthy(Field(es[1], "url"))
        THEN <<MdLink(safeTitle(es[1].url, Field(es[1], "title")), es[1].url)>>
        ELSE <<>>) \o EntryLinks(Tail(es))

RECURSIVE GroupLinks(_)
GroupLinks(gs) ==
  IF gs = <<>> THEN <<>>
  ELSE (IF Has(gs[1], "entries") THEN EntryLinks(gs[1].entries) ELSE <<>>)
       \o GroupLinks(Tail(gs))

extractSearchResults(meta) ==
  IF ~Has(meta, "search_result_groups") THEN <<>>
  ELSE LET links == GroupLinks(meta.search_result_groups)
       IN IF links # <<>> THEN Join(links, NL) \o NLNL ELSE <<>>

CitationKey(c) ==
  IF Truthy(Field(c, "ref_id")) THEN c.ref_id
  ELSE IF Truthy(Field(c, "source_id")) THEN c.source_id
  ELSE Field(c, "id")

\* The map as a function from key to link; a later citation overwrites an
\* earlier one of the same key.
buildCitationMap(meta) ==
  LET cs == IF Has(meta, "citations") THEN meta.citations ELSE <<>>
      ok(i) == Truthy(CitationKey(cs[i])) /\ Truthy(Field(cs[i], "url"))
      keys == {CitationKey(cs[i]) : i \in {j \in 1..Len(cs) : ok(j)}}
  IN [k \in keys |->
        LET last == SetMax({i \in 1..Len(cs) : ok(i) /\ CitationKey(cs[i]) = k})
        IN MdLink(safeTitle(cs[last].url, Field(cs[last], "title")), cs[last].url)]

\* /[-]cite[-](.*?)[-]/g
RECURSIVE replaceCitationPlaceholders(_, _)
replaceCitationPlaceholders(s, map) ==
  IF s = <<>> THEN <<>>
  ELSE LET close == {j \in 4..Len(s) : s[j] = PUA}
           j == SetMin(close)
           matches == /\ Len(s) >= 4 /\ s[1] = PUA /\ s[2] = "cite" /\ s[3] = PUA
                      /\ close # {}
                      /\ \A k \in 4..(j - 1) : s[k] # "\n"
       IN IF matches
          THEN LET id == SubSeq(s, 4, j - 1)
               IN (IF id \in DOMAIN map THEN map[id] ELSE <<>>)
                  \o replaceCitationPlaceholders(From(s, j + 1), map)
          ELSE <<s[1]>> \o replaceCitationPlaceholders(Tail(s), map)

extractCitations(meta) ==
  IF ~Has(meta, "citations") THEN <<>>
  ELSE LET cs == meta.citations
       IN NL \o Join([i \in 1..Len(cs) |->
                 <<">", " ">> \o MdLink(Str(Field(cs[i], "name")), Str(Field(cs[i], "url")))
                 \o NLNL \o <<">", " ">> \o Str(Field(cs[i], "detail")) \o NL], NL)

(***************************************************************************)
(* Content renderer: nodeToMarkdown                                        *)
(***************************************************************************)
H5 == <<"#", "#", "#", "#", "#">>

\* A part of multimodal_text is [str |-> s] for a string and a record with a
\* content_type otherwise.
RECURSIVE MultimodalParts(_)
MultimodalParts(ps) ==
  IF ps = <<>> THEN <<>>
  ELSE (IF Has(ps[1], "str") THEN ps[1].str \o NLNL
        ELSE IF ps[1].content_type = "image_asset_pointer"
        THEN <<"Image", " ", "(">> \o Str(Field(ps[1], "width")) \o <<"x">>
             \o Str(Field(ps[1], "height")) \o <<")", ":", " ">>
             \o (IF Has(ps[1], "prompt") THEN ps[1].prompt ELSE <<>>) \o NLNL
        ELSE <<ps[1].content_type>> \o NLNL)
       \o MultimodalParts(Tail(ps))

\* language.replace("unknown", ""): the first occurrence is removed.
ReplaceUnknown(lang) ==
  LET at == {i \in 1..Len(lang) : lang[i] = "unknown"}
  IN IF at = {} THEN lang
     ELSE SubSeq(lang, 1, SetMin(at) - 1) \o From(lang, SetMin(at) + 1)

\* The switch of lines 69-113 evaluates a member of an absent field.
ContentThrows(c) ==
  CASE c.content_type = "text" -> ~Has(c, "parts")
    [] c.content_type = "code" -> ~Has(c, "language")
    [] c.content_type = "multimodal_text" -> ~Has(c, "parts")
    [] c.content_type = "thoughts" -> ~Has(c, "thoughts")
    [] c.content_type = "reasoning_recap" -> ~Has(c, "content")
    [] OTHER -> FALSE

ContentBody(c) ==
  CASE c.content_type = "text" -> Join(c.parts, NL)
    [] c.content_type = "code" ->
         FENCE \o ReplaceUnknown(c.language) \o NL \o Str(Field(c, "text")) \o NL \o FENCE
    [] c.content_type = "execution_output" ->
         FENCE \o NL \o Str(Field(c, "text")) \o NL \o FENCE
    [] c.content_type = "multimodal_text" -> MultimodalParts(c.parts)
    [] c.content_type = "tether_browsing_display" ->
         FENCE \o NL
         \o (IF Truthy(Field(c, "summary")) THEN c.summary \o NL ELSE <<>>)
         \o Str(Field(c, "result")) \o NL \o FENCE
    [] c.content_type = "tether_quote" ->
         blockquote(MdLink(IF Truthy(Field(c, "title")) THEN c.title
                           ELSE Str(Field(c, "url")), Str(Field(c, "url")))
                    \o NLNL \o Str(Field(c, "text")))
    [] c.content_type = "system_error" ->
         Str(Field(c, "name")) \o NLNL \o Str(Field(c, "text")) \o NLNL
    [] c.content_type = "user_editable_context" -> <<>>
    [] c.content_type = "thoughts" ->
         Join([i \in 1..Len(c.thoughts) |->
                 H5 \o SP \o Str(Field(c.thoughts[i], "summary")) \o NLNL
                 \o Str(Field(c.thoughts[i], "content")) \o NL], NL)
    [] c.content_type = "reasoning_recap" -> blockquote(c.content)
    [] c.content_type = "sonic_webpage" ->
         FENCE \o NL \o Str(Field(c, "title")) \o <<" ", "(">> \o Str(Field(c, "url"))
         \o <<")">> \o NLNL \o Str(Field(c, "text")) \o NL \o FENCE
    [] OTHER -> <<"[object Object]">>

\* /"key"\s*:/s
HasKeyColon(s, key) ==
  \E i \in 1..Len(s) : \E j \in (i + 1)..Len(s) :
    /\ s[i] = key /\ s[j] = ":"
    /\ \A k \in (i + 1)..(j - 1) : IsWS(s[k])

HasToken(s, tok) == \E i \in 1..Len(s) : s[i] = tok

NodeMeta(node) == IF Has(node.message, "metadata") THEN node.message.metadata ELSE <<>>

\* Lines 114-127: citation placeholders, raw URLs, appended lists.
PostProcess(body, meta) ==
  wrapLinksInMarkdown(replaceCitationPlaceholders(body, buildCitationMap(meta)))
  \o extractCitations(meta) \o extractSearchResults(meta)

\* Lines 132-136: the body is suppressed.
Suppressed(body) ==
  \/ HasKeyColon(body, "\"search_query\"")
  \/ (HasKeyColon(body, "\"open\"") /\ HasToken(body, "\"url\""))
  \/ HasKeyColon(body, "\"find\"")
  \/ HasKeyColon(body, "\"click\"")
  \/ Trim(body) = <<>>

\* Whether nodeToMarkdown(node) throws (the catch of lines 147-150 rethrows).
nodeToMarkdownThrows(node) ==
  /\ Has(node, "message") /\ Has(node.message, "content")
  /\ ContentThrows(node.message.content)

nodeToMarkdown(node, skipHeader) ==
  IF ~Has(node, "message") \/ ~Has(node.message, "content") THEN <<>>
  ELSE LET body == PostProcess(ContentBody(node.message.content), NodeMeta(node))
           author == node.message.author
           out == IF author.role = "user" THEN indent(body) ELSE body
       IN IF Suppressed(body) THEN <<>>
          ELSE IF skipHeader THEN out
          ELSE IF author.role = "tool" THEN out \o NLNL
          ELSE <<"#", "#", " ", author.role>>
               \o (IF Truthy(Field(author, "name"))
                   THEN <<" ", "(">> \o author.name \o <<")">> ELSE <<>>)
               \o NLNL \o out \o NLNL

(***************************************************************************)
(* Visibility filter: shouldIncludeMessage                                 *)
(***************************************************************************)
BannedKeys == {"\"open\"", "\"search_query\"", "\"find\"", "\"click\"",
               "\"browser\"", "\"code_interpreter\""}
JsonScalars == QuotedTokens \cup {"1", "true", "false", "null"}

\* JSON.parse restricted to objects whose values are scalars or objects.
\* ParseObject(t, i) reads the object that opens at t[i] = "{" and gives the
\* position after it (0: a SyntaxError) and its keys.
JsonFail == [end |-> 0, keys |-> {}]
RECURSIVE ParseObject(_, _), ParseMembers(_, _), JsonValueEnd(_, _)
JsonValueEnd(t, i) ==
  IF i > Len(t) THEN 0
  ELSE IF t[i] \in JsonScalars THEN i + 1
  ELSE IF t[i] = "{" THEN ParseObject(t, i).end
  ELSE 0
ParseObject(t, i) ==
  IF i + 1 <= Len(t) /\ t[i + 1] = "}" THEN [end |-> i + 2, keys |-> {}]
  ELSE ParseMembers(t, i + 1)
ParseMembers(t, i) ==
  IF i + 2 > Len(t) \/ t[i] \notin QuotedTokens \/ t[i + 1] # ":" THEN JsonFail
  ELSE LET e == JsonValueEnd(t, i + 2)
       IN IF e = 0 \/ e > Len(t) THEN JsonFail
          ELSE IF t[e] = "}" THEN [end |-> e + 1, keys |-> {t[i]}]
          ELSE IF t[e] = ","
               THEN LET r == ParseMembers(t, e + 1)
                    IN IF r.end = 0 THEN JsonFail
                       ELSE [end |-> r.end, keys |-> r.keys \cup {t[i]}]
          ELSE JsonFail

\* Lines 299-308: the text parses as an object with a banned key.
JsonHasBannedKey(text) ==
  LET t == SelectSeq(text, NotWS)
  IN /\ t # <<>> /\ t[1] = "{"
     /\ LET r == ParseObject(t, 1)
        IN r.end = Len(t) + 1 /\ r.keys \cap BannedKeys # {}

\* parts.join(sep) of a content whose parts are strings or, in
\* multimodal_text, objects.
PartsJoin(c, sep) ==
  IF c.content_type = "multimodal_text"
  THEN Join([i \in 1..Len(c.parts) |->
               IF Has(c.parts[i], "str") THEN c.parts[i].str
               ELSE <<"[object Object]">>], sep)
  ELSE Join(c.parts, sep)

suspectText(msg) ==
  Trim(IF ~Has(msg, "content") THEN <<>>
       ELSE IF msg.content.content_type = "code"
            THEN (IF Truthy(Field(msg.content, "text")) THEN msg.content.text ELSE <<>>)
       ELSE IF Has(msg.content, "parts") THEN PartsJoin(msg.content, NL)
       ELSE <<>>)

\* The filter without the test of line 284.
shouldIncludeMessageKeepsEnded(node) ==
  IF ~Has(node, "message") THEN FALSE
  ELSE LET meta == NodeMeta(node)
           msg == node.message
       IN IF Has(meta, "is_visually_hidden_from_conversation")
             /\ meta.is_visually_hidden_from_conversation THEN FALSE
          ELSE IF msg.author.role = "system"
                  /\ (~Has(msg, "content") \/ ~Has(msg.content, "parts")
                      \/ Trim(PartsJoin(msg.content, <<>>)) = <<>>) THEN FALSE
          ELSE IF msg.author.role = "assistant"
                  /\ (JsonHasBannedKey(suspectText(msg))
                      \/ HasKeyColon(suspectText(msg), "\"search_query\"")) THEN FALSE
          ELSE TRUE

shouldIncludeMessage(node) ==
  IF ~Has(node, "message") THEN FALSE
  ELSE LET meta == NodeMeta(node)
           msg == node.message
       IN IF Has(meta, "is_visually_hidden_from_conversation")
             /\ meta.is_visually_hidden_from_conversation THEN FALSE
          ELSE IF Has(meta, "reasoning_status")
                  /\ meta.reasoning_status = "reasoning_ended" THEN FALSE
          ELSE IF msg.author.role = "system"
                  /\ (~Has(msg, "content") \/ ~Has(msg.content, "parts")
                      \/ Trim(PartsJoin(msg.content, <<>>)) = <<>>) THEN FALSE
          ELSE IF msg.author.role = "assistant"
                  /\ (JsonHasBannedKey(suspectText(msg))
                      \/ HasKeyColon(suspectText(msg), "\"search_query\"")) THEN FALSE
          ELSE TRUE

(***************************************************************************)
(* Tree linearizer: getOrderedNodeIds.  A mapping is [keys, node]: keys is *)
(* Object.keys(mapping), node the object itself.                           *)
(***************************************************************************)
RootId == "client-created-root"
NoId == ""

\* Line 181 with the child list read back to front.
ChildrenReversed(mapping, id) ==
  LET c == IF Has(mapping.node[id], "children") THEN mapping.node[id].children
           ELSE <<>>
  IN [i \in 1..Len(c) |-> c[Len(c) + 1 - i]]

\* Line 181: mapping[id].children || []
Children(mapping, id) ==
  IF Has(mapping.node[id], "children") THEN mapping.node[id].children ELSE <<>>

\* Line 179: the guard of walk
Walkable(mapping, id) == id # NoId /\ id \in DOMAIN mapping.node

\* Line 185
WalkRootId(mapping) ==
  IF RootId \in DOMAIN mapping.node THEN RootId
  ELSE IF mapping.keys # <<>> THEN mapping.keys[1] ELSE NoId

RECURSIVE walk(_, _, _), walkEach(_, _, _)
walk(mapping, id, acc) ==
  IF ~Walkable(mapping, id) THEN acc
  ELSE walkEach(mapping, Children(mapping, id), Append(acc, id))
walkEach(mapping, children, acc) ==
  IF children = <<>> THEN acc
  ELSE walkEach(mapping, Tail(children), walk(mapping, Head(children), acc))

getOrderedNodeIds(conversation) ==
  walk(conversation.mapping, WalkRootId(conversation.mapping), <<>>)

\* Lines 357-359: the ordered nodes that pass the filter, by identifier.
OrderedMessages(conversation) ==
  SelectSeq(getOrderedNodeIds(conversation),
            LAMBDA id : shouldIncludeMessage(conversation.mapping.node[id]))

(***************************************************************************)
(* Document assembler: file name, title line, front matter                 *)
(***************************************************************************)
SourceDir == <<"out">>

FileName(conversation) ==
  LET sanitizedTitle == sanitizeFileName(conversation.title)
  IN (IF sanitizedTitle # <<>> THEN sanitizedTitle ELSE conversation.conversation_id)
     \o <<".md">>

\* path.join(sourceDir, fileName)
FilePath(conversation) == SourceDir \o <<"/">> \o FileName(conversation)

TitleLine(conversation) ==
  <<"#", " ">> \o wrapHtmlTagsInBackticks(conversation.title) \o NL

\* new Date(seconds * 1000).toISOString(): one token per instant.
IsoString(seconds) == <<"ISO-8601:" \o ToString(seconds * 1000) \o "ms">>

ModelName(conversation) ==
  LET m == conversation.mapping
      slug(i) == LET n == m.node[m.keys[i]]
                 IN IF Has(n, "message") THEN Field(NodeMeta(n), "model_slug") ELSE Undef
      found == {i \in 1..Len(m.keys) : Truthy(slug(i))}
  IN IF found = {} THEN <<>> ELSE slug(SetMin(found))

FrontMatter(conversation) ==
  Join(<< <<"---">>,
          <<"create_time:", " ">> \o IsoString(conversation.create_time),
          <<"update_time:", " ">> \o IsoString(conversation.update_time),
          <<"tags:">>,
          <<"completed:", " ", "false">>,
          <<"validated:", " ", "false">>,
          <<"favorite:", " ", "false">>,
          <<"ai_integration:", " ", "true">>,
          <<"ai_integration_level:", " ", "generation">>,
          <<"ai_model_name:", " ">> \o ModelName(conversation),
          <<"aliases:", " ">> \o wrapHtmlTagsInBackticks(conversation.title),
          <<"author:">>,
          <<"source:", " ", "https://chatgpt.com/c/">> \o conversation.conversation_id,
          <<"---">> >>, NL)

\* Line 442 with the title line put before the front matter.
MarkdownContentTitleFirst(fm, ttl, messages) == ttl \o NLNL \o fm \o NLNL \o messages

\* Line 442
MarkdownContent(fm, ttl, messages) == fm \o NLNL \o ttl \o NLNL \o messages

(***************************************************************************)
(* Reasoning callout assembler: the loop body of lines 363-439             *)
(***************************************************************************)
Opener == <<">", " ", "[", "!", "info", "]", "-", " ", "Reasoning", "\n">>
Separator == <<">", " ", "\n">>
LinksHeader == <<">", ">", " ", "[", "!", "quote", "]", "-", " ", "Links", "\n">>
ExampleHeader(t) == <<">", ">", " ", "[", "!", "example", "]", "-", " ">> \o t \o NL

NonWordTokens ==
  WS \cup UrlTokens \cup QuotedTokens \cup
  {"#", ">", "<", "[", "]", "(", ")", "!", "-", ":", ",", "{", "}", "/", "?",
   "FENCE3", "BACKTICK", "[object Object]", PUA}

IsReason(node) ==
  Has(NodeMeta(node), "reasoning_status") /\ NodeMeta(node).reasoning_status = "is_reasoning"

\* /^\[!\w+\]/i
IsMarker(t) ==
  /\ Len(t) >= 4 /\ t[1] = "[" /\ t[2] = "!"
  /\ \E j \in 4..Len(t) : t[j] = "]" /\ \A k \in 3..(j - 1) : t[k] \notin NonWordTokens

\* Lines 384-391
IsCandidate(line) ==
  LET t == Trim(line)
  IN t # <<>> /\ t[1] # "FENCE3" /\ t[1] # "#" /\ ~IsMarker(t)

\* /^\[[^\]]+\]\(https?:\/\/[^)]+\)/
linkRegex(t) ==
  /\ t # <<>> /\ t[1] = "["
  /\ LET rb == {j \in 2..Len(t) : t[j] = "]"}
     IN /\ rb # {} /\ SetMin(rb) >= 3
        /\ LET j == SetMin(rb)
           IN /\ Len(t) >= j + 3 /\ t[j + 1] = "(" /\ t[j + 2] \in UrlTokens
              /\ \E k \in (j + 3)..Len(t) : t[k] = ")"

ContentLines(rawContent) == Split(Trim(rawContent))

\* Lines 394-399
OnlyLinks(contentLines) ==
  LET candidateLines == SelectSeq(contentLines, IsCandidate)
  IN /\ \E i \in 1..Len(candidateLines) : linkRegex(Trim(candidateLines[i]))
     /\ \A i \in 1..Len(candidateLines) :
          Trim(candidateLines[i]) = <<>> \/ linkRegex(Trim(candidateLines[i]))

\* Lines 408-419: the index of the heading line that becomes the title, or 0.
HeadingIndex(contentLines) ==
  LET nonBlank == {i \in 1..Len(contentLines) : Trim(contentLines[i]) # <<>>}
  IN IF nonBlank = {} THEN 0
     ELSE IF StartsWith(Trim(contentLines[SetMin(nonBlank)]), H5) THEN SetMin(nonBlank)
     ELSE 0

\* line.replace(/^#+\s*/, "")
StripHeading(t) ==
  LET rest == {i \in 1..Len(t) : t[i] # "#"}
      afterHashes == IF rest = {} THEN <<>> ELSE From(t, SetMin(rest))
      text == {i \in 1..Len(afterHashes) : ~IsWS(afterHashes[i])}
  IN IF t = <<>> \/ t[1] # "#" THEN t
     ELSE IF text = {} THEN <<>> ELSE From(afterHashes, SetMin(text))

CalloutTitle(contentLines) ==
  IF ~OnlyLinks(contentLines) /\ HeadingIndex(contentLines) # 0
  THEN StripHeading(Trim(contentLines[HeadingIndex(contentLines)]))
  ELSE <<"Reasoning">>

OutputLines(contentLines) ==
  LET i == HeadingIndex(contentLines)
  IN IF ~OnlyLinks(contentLines) /\ i # 0
     THEN SubSeq(contentLines, 1, i - 1) \o From(contentLines, i + 1)
     ELSE contentLines

\* Lines 430-434
NestedLine(line) ==
  IF Trim(line) # <<>> THEN <<">", ">", " ">> \o Trim(line) \o NL ELSE <<">", ">", "\n">>

\* Lines 371-377
CalloutLead(inC) == IF ~inC THEN Opener ELSE Separator

\* Lines 423-427
NestedHeader(contentLines) ==
  IF OnlyLinks(contentLines) THEN LinksHeader
  ELSE ExampleHeader(CalloutTitle(contentLines))

\* Everything one reasoning message pushes to parts (lines 366-436).
ReasoningParts(node, inC) ==
  LET contentLines == ContentLines(nodeToMarkdown(node, TRUE))
      outputLines == OutputLines(contentLines)
  IN <<CalloutLead(inC), NestedHeader(contentLines)>>
     \o [i \in 1..Len(outputLines) |-> NestedLine(outputLines[i])]

\* Line 438: what a normal message does to the assembler state.  The flag
\* is not assigned on this path.
InCalloutAfterNormal(inC) == inC
NormalParts(node, inC) == <<nodeToMarkdown(node, FALSE)>>

\* Line 440
ClosingParts(inC) == IF inC THEN <<NL>> ELSE <<>>

\* The renderer flagging a reasoning message in its metadata.
MetaAfterRenderFlagged(meta) ==
  IF Has(meta, "reasoning_status") /\ meta.reasoning_status = "is_reasoning"
  THEN [k \in DOMAIN meta \cup {"__wrap_callout"} |->
          IF k = "__wrap_callout" THEN TRUE ELSE meta[k]]
  ELSE meta

\* Lines 114-130: what rendering leaves in the metadata of the message.
MetaAfterRender(meta) == meta

(***************************************************************************)
(* Archives the model runs on.                                             *)
(***************************************************************************)
Reasoning == [reasoning_status |-> "is_reasoning"]
TextOf(ps) == [content_type |-> "text", parts |-> ps]

mUser == [author |-> [role |-> "user"], content |-> TextOf(<< <<"hi">> >>),
          metadata |-> [model_slug |-> <<"gpt-4o">>]]
mAssistant == [author |-> [role |-> "assistant"],
               content |-> TextOf(<< <<"see", " ", "https://a.io">> >>)]
mThoughts == [author |-> [role |-> "assistant"],
              content |-> [content_type |-> "thoughts",
                           thoughts |-> << [summary |-> <<"Plan">>,
                                            content |-> <<"step">>] >>],
              metadata |-> Reasoning]
mPlain == [author |-> [role |-> "assistant"], content |-> TextOf(<< <<"think">> >>),
           metadata |-> Reasoning]
mLinks == [author |-> [role |-> "assistant"],
           content |-> TextOf(<< <<"[", "A", "]", "(", "https://a.io", ")">> >>),
           metadata |-> Reasoning]
mSearch == [author |-> [role |-> "tool", name |-> <<"web">>],
            content |-> TextOf(<< <<>> >>),
            metadata |-> [reasoning_status |-> "is_reasoning",
                          search_result_groups |->
                            << [entries |-> << [url |-> <<"https://b.io/p">>,
                                                title |-> <<"B">>],
                                               [url |-> <<"https://a.io">>] >>] >>]]
mDeep == [author |-> [role |-> "assistant"],
          content |-> TextOf(<< <<"#", "#", "#", "#", "#", "#", " ", "Deep">>,
                                <<"more">> >>),
          metadata |-> Reasoning]
mHidden == [author |-> [role |-> "user"], content |-> TextOf(<< <<"secret">> >>),
            metadata |-> [is_visually_hidden_from_conversation |-> TRUE]]
mEnded == [author |-> [role |-> "assistant"], content |-> TextOf(<< <<"recap">> >>),
           metadata |-> [reasoning_status |-> "reasoning_ended"]]
mSystemBlank == [author |-> [role |-> "system"], content |-> TextOf(<< <<" ">> >>),
                 metadata |-> Reasoning]
mToolJson == [author |-> [role |-> "assistant"],
              content |-> TextOf(<< <<"{", "\"browser\"", ":", " ", "\"q\"", "}">> >>),
              metadata |-> Reasoning]
mToolQuery == [author |-> [role |-> "assistant"],
               content |-> [content_type |-> "code", language |-> <<"unknown">>,
                            text |-> <<"search", "(", "\"search_query\"", ":", " ",
                                       "\"q\"", ")">>]]
\* A code content without a language: content.language.replace throws.
mBroken == [author |-> [role |-> "assistant"],
            content |-> [content_type |-> "code", text |-> <<"x">>]]

RunMessages == {mUser, mPlain, mBroken}
BodyMessages == {mUser, mAssistant, mThoughts, mPlain, mLinks, mSearch, mDeep,
                 mHidden, mEnded, mSystemBlank, mToolJson, mToolQuery, mBroken}

NodeId(i) == "n" \o ToString(i)

\* The root without a message, then one node per message, each the only
\* child of the one before; the last node declares no children.
ChainMapping(ms) ==
  LET n == Len(ms)
      keys == <<RootId>> \o [i \in 1..n |-> NodeId(i)]
      at(id) == CHOOSE i \in 1..n : NodeId(i) = id
  IN [keys |-> keys,
      node |-> [id \in {keys[i] : i \in 1..(n + 1)} |->
                  IF id = RootId
                  THEN [children |-> IF n = 0 THEN <<>> ELSE <<NodeId(1)>>]
                  ELSE IF at(id) = n THEN [message |-> ms[n]]
                  ELSE [message |-> ms[at(id)], children |-> <<NodeId(at(id) + 1)>>]]]

EmptyMapping == [keys |-> <<>>, node |-> <<>>]

\* "A" and "A:" sanitize to the same file name; "?" sanitizes to nothing and
\* falls back to the conversation identifier.
Titles == { <<"A">>, <<"A", ":">>, <<"?">> }

\* The i-th conversation of an archive.
Conversation(i, t, m) ==
  [conversation_id |-> <<"c" \o ToString(i)>>, title |-> t,
   create_time |-> 100 * i, update_time |-> 100 * i + 50, mapping |-> m]

\* The number of messages of the first i conversations, lens[j] being the
\* number of messages of the j-th.
RECURSIVE MessagesBefore(_, _)
MessagesBefore(lens, i) ==
  IF i = 0 THEN 0 ELSE lens[i] + MessagesBefore(lens, i - 1)

\* The archive whose i-th conversation has title ts[i] and the next lens[i]
\* messages of all; a conversation without messages has the empty mapping
\* when bare[i], the root alone otherwise.
Archive(ts, bare, lens, all) ==
  [i \in DOMAIN lens |->
     Conversation(i, ts[i],
       IF lens[i] = 0
       THEN IF bare[i] THEN EmptyMapping ELSE ChainMapping(<<>>)
       ELSE ChainMapping([j \in 1..lens[i] |->
                            all[MessagesBefore(lens, i - 1) + j]]))]

\* The run starts on an archive of at most MaxConvs conversations and
\* MaxMsgs messages in all.
IsArchive(a) ==
  \E k \in 0..MaxConvs : \E lens \in [1..k -> 0..MaxMsgs] :
    /\ MessagesBefore(lens, k) <= MaxMsgs
    /\ \E all \in [1..MessagesBefore(lens, k) -> RunMessages],
          ts \in [1..k -> Titles], bare \in [1..k -> BOOLEAN] :
         /\ \A i \in 1..k : bare[i] => lens[i] = 0
         /\ a = Archive(ts, bare, lens, all)

\* One conversation of at most MaxBodyMsgs messages of any kind.
IsBodyArchive(a) ==
  \E n \in 0..MaxBodyMsgs :
    \E all \in [1..n -> BodyMessages], bare \in BOOLEAN :
      /\ bare => n = 0
      /\ a = Archive(<< <<"A">> >>, <<bare>>, <<n>>, all)

\* The wall clock of the run is later than every conversation of the archive.
Now == 100 * (MaxConvs + 2)

NoError == [thrown |-> FALSE]

(***************************************************************************)
(* chatgptToMarkdown (lines 317-446) as a state machine.  pc is the place  *)
(* of the run: "loop" at the head of the for-of over the archive, "render" *)
(* in the loop over orderedMessages, "write" and "utimes" before the two   *)
(* awaited file-system calls, "done" after the return, "failed" after a    *)
(* throw.                                                                  *)
(***************************************************************************)
TypeOK ==
  /\ pc \in {"loop", "walk", "walked", "render", "write", "utimes", "done", "failed"}
  /\ ci \in 1..(Len(json) + 1)
  /\ inCallout \in BOOLEAN

InitLocals ==
  /\ files = <<>>
  /\ log = <<>>
  /\ pc = "loop"
  /\ ci = 1
  /\ error = NoError
  /\ filePath = <<>>
  /\ title = <<>>
  /\ metadata = <<>>
  /\ orderedMessages = <<>>
  /\ mi = 1
  /\ inCallout = FALSE
  /\ parts = <<>>
  /\ markdownContent = <<>>
  /\ ordered = <<>>
  /\ stack = <<>>

Init == IsArchive(json) /\ InitLocals

InitBody == IsBodyArchive(json) /\ InitLocals

Current == json[ci]
CurrentNode == Current.mapping.node[orderedMessages[mi]]

\* The archive after the metadata object of node id of conversation c was
\* left as m by the renderer; an absent metadata is a fresh object that the
\* archive does not hold.
WithMeta(c, id, m) ==
  IF Has(json[c].mapping.node[id].message, "metadata")
  THEN [json EXCEPT ![c].mapping.node[id].message.metadata = m]
  ELSE json

\* fs.writeFile(path, content, "utf8")
FsWrite(fs, path, content) ==
  [p \in DOMAIN fs \cup {path} |->
     IF p = path THEN [content |-> content, atime |-> Now, mtime |-> Now] ELSE fs[p]]

\* fs.utimes(path, atime, mtime)
FsUtimes(fs, path, atime, mtime) ==
  [p \in DOMAIN fs |->
     IF p = path THEN [content |-> fs[p].content, atime |-> atime, mtime |-> mtime]
     ELSE fs[p]]

\* Line 444 with the two times in the other order.
UtimesArgsSwapped(conversation) == <<conversation.update_time, conversation.create_time>>

\* Line 444: the second and third argument of the call.
UtimesArgs(conversation) == <<conversation.create_time, conversation.update_time>>

\* The flag of the conversation before carried into the next one.
InCalloutCarried(inC) == inC

\* Line 361: let inCallout = false, inside the loop over the conversations.
InCalloutAtStart(inC) == FALSE

\* Lines 325-362
BeginConversation ==
  /\ pc = "loop" /\ ci <= Len(json)
  /\ filePath' = FilePath(Current)
  /\ title' = TitleLine(Current)
  /\ metadata' = FrontMatter(Current)
  /\ orderedMessages' = OrderedMessages(Current)
  /\ inCallout' = InCalloutAtStart(inCallout)
  /\ parts' = <<>>
  /\ mi' = 1
  /\ pc' = "render"
  /\ UNCHANGED <<ordered, stack, json, files, log, ci, error, markdownContent>>

\* Lines 364-437, a reasoning message
RenderReasoning ==
  /\ pc = "render" /\ mi <= Len(orderedMessages)
  /\ IsReason(CurrentNode) /\ ~nodeToMarkdownThrows(CurrentNode)
  /\ parts' = parts \o ReasoningParts(CurrentNode, inCallout)
  /\ inCallout' = TRUE
  /\ json' = WithMeta(ci, orderedMessages[mi], MetaAfterRender(NodeMeta(CurrentNode)))
  /\ mi' = mi + 1
  /\ UNCHANGED <<ordered, stack, files, log, pc, ci, error, filePath, title, metadata,
                 orderedMessages, markdownContent>>

\* Lines 364-366 and 438, any other message
RenderNormal ==
  /\ pc = "render" /\ mi <= Len(orderedMessages)
  /\ ~IsReason(CurrentNode) /\ ~nodeToMarkdownThrows(CurrentNode)
  /\ parts' = parts \o NormalParts(CurrentNode, inCallout)
  /\ inCallout' = InCalloutAfterNormal(inCallout)
  /\ json' = WithMeta(ci, orderedMessages[mi], MetaAfterRender(NodeMeta(CurrentNode)))
  /\ mi' = mi + 1
  /\ UNCHANGED <<ordered, stack, files, log, pc, ci, error, filePath, title, metadata,
                 orderedMessages, markdownContent>>

\* The loop with the error caught and the message skipped.
RenderThrowsSkipped ==
  /\ pc = "render" /\ mi <= Len(orderedMessages)
  /\ nodeToMarkdownThrows(CurrentNode)
  /\ mi' = mi + 1
  /\ UNCHANGED <<ordered, stack, json, files, log, pc, ci, error, filePath, title, metadata,
                 orderedMessages, inCallout, parts, markdownContent>>

\* Lines 147-150: nodeToMarkdown rethrows with the node appended to the
\* message; nothing in chatgptToMarkdown catches it.
RenderThrows ==
  /\ pc = "render" /\ mi <= Len(orderedMessages)
  /\ nodeToMarkdownThrows(CurrentNode)
  /\ error' = [thrown |-> TRUE, conv |-> ci, node |-> CurrentNode]
  /\ pc' = "failed"
  /\ UNCHANGED <<ordered, stack, json, files, log, ci, filePath, title, metadata, orderedMessages,
                 mi, inCallout, parts, markdownContent>>

\* Lines 440-442
AssembleDocument ==
  /\ pc = "render" /\ mi > Len(orderedMessages)
  /\ parts' = parts \o ClosingParts(inCallout)
  /\ markdownContent' = MarkdownContent(metadata, title, Join(parts', <<>>))
  /\ pc' = "write"
  /\ UNCHANGED <<ordered, stack, json, files, log, ci, error, filePath, title, metadata,
                 orderedMessages, mi, inCallout>>

\* Line 443
WriteFile ==
  /\ pc = "write"
  /\ files' = FsWrite(files, filePath, markdownContent)
  /\ log' = Append(log, [op |-> "writeFile", conv |-> ci, path |-> filePath,
                         content |-> markdownContent])
  /\ pc' = "utimes"
  /\ UNCHANGED <<ordered, stack, json, ci, error, filePath, title, metadata, orderedMessages, mi,
                 inCallout, parts, markdownContent>>

\* Line 444 and the step of the for-of to the next conversation
Utimes ==
  /\ pc = "utimes"
  /\ files' = FsUtimes(files, filePath, UtimesArgs(Current)[1], UtimesArgs(Current)[2])
  /\ log' = Append(log, [op |-> "utimes", conv |-> ci, path |-> filePath,
                         atime |-> UtimesArgs(Current)[1],
                         mtime |-> UtimesArgs(Current)[2]])
  /\ ci' = ci + 1
  /\ pc' = "loop"
  /\ UNCHANGED <<ordered, stack, json, error, filePath, title, metadata, orderedMessages, mi,
                 inCallout, parts, markdownContent>>

\* Line 446: the archive is exhausted
Return ==
  /\ pc = "loop" /\ ci > Len(json)
  /\ pc' = "done"
  /\ UNCHANGED <<ordered, stack, json, files, log, ci, error, filePath, title, metadata,
                 orderedMessages, mi, inCallout, parts, markdownContent>>

Next ==
  \/ BeginConversation
  \/ RenderReasoning
  \/ RenderNormal
  \/ RenderThrows
  \/ AssembleDocument
  \/ WriteFile
  \/ Utimes
  \/ Return

Spec == Init /\ [][Next]_vars

SpecBody == InitBody /\ [][Next]_vars

(***************************************************************************)
(* Render runs: one conversation of one message, a code content of some    *)
(* language or a text with citation placeholders.                          *)
(***************************************************************************)
Placeholder(id) == <<PUA, "cite", PUA>> \o id \o <<PUA>>

Segments == { <<"see">>, <<" ">>, Placeholder(<<"r1">>), Placeholder(<<"r2">>) }

Citations ==
  { [ref_id |-> <<"r1">>, url |-> <<"https://a.io">>, title |-> <<"T">>],
    [source_id |-> <<"r1">>, url |-> <<"https://b.io/p">>],
    [id |-> <<"r2">>, url |-> <<"https://a.io">>, title |-> <<" ">>,
     name |-> <<"N">>, detail |-> <<"d">>],
    [ref_id |-> <<"r2">>, title |-> <<"T">>],
    [ref_id |-> <<"r2">>, url |-> <<"/", "doc">>] }

Languages == { <<>>, <<"unknown">>, <<"js">>, <<"unknown", "2">>,
               <<"x", "unknown">>, <<"unknown", "unknown">> }

Roles == {"assistant", "user", "tool"}

CitingMessage(role, segs, cites, withMeta) ==
  LET text == TextOf(<< Join(segs, <<>>) >>)
  IN IF withMeta
     THEN [author |-> [role |-> role], content |-> text,
           metadata |-> [citations |-> cites]]
     ELSE [author |-> [role |-> role], content |-> text]

CodeMessage(role, lang, reasons) ==
  LET c == IF lang = Undef THEN [content_type |-> "code", text |-> <<"x">>]
           ELSE [content_type |-> "code", language |-> lang, text |-> <<"x">>]
  IN IF reasons THEN [author |-> [role |-> role], content |-> c, metadata |-> Reasoning]
     ELSE [author |-> [role |-> role], content |-> c]

\* Contents of reasoning messages: an empty or blank body, a suppressed
\* body, and bodies whose lines the renderer quotes.
ReasoningContents ==
  { [content_type |-> "user_editable_context"],
    TextOf(<< <<" ">> >>),
    TextOf(<< <<"\"search_query\"", ":", " ", "\"q\"">> >>),
    TextOf(<< <<"think">> >>),
    [content_type |-> "reasoning_recap", content |-> <<"recap", "\n", "done">>],
    [content_type |-> "tether_quote", url |-> <<"https://a.io">>,
     title |-> <<"T">>, text |-> <<"quoted">>] }

ReasoningMessage(role, c, cites) ==
  [author |-> [role |-> role], content |-> c,
   metadata |-> IF cites = <<>> THEN Reasoning
                ELSE [reasoning_status |-> "is_reasoning", citations |-> cites]]

IsRenderArchive(a) ==
  \/ \E role \in Roles, c \in ReasoningContents, nc \in 0..MaxCites :
       \E cites \in [1..nc -> Citations] :
         a = << Conversation(1, <<"A">>,
                  ChainMapping(<< ReasoningMessage(role, c, cites) >>)) >>
  \/ \E role \in Roles, ns \in 0..MaxSegs, nc \in 0..MaxCites, withMeta \in BOOLEAN :
       \E segs \in [1..ns -> Segments], cites \in [1..nc -> Citations] :
         /\ ~withMeta => nc = 0
         /\ a = << Conversation(1, <<"A">>,
                     ChainMapping(<< CitingMessage(role, segs, cites, withMeta) >>)) >>
  \/ \E role \in Roles, lang \in Languages \cup {Undef}, reasons \in BOOLEAN :
       a = << Conversation(1, <<"A">>,
                ChainMapping(<< CodeMessage(role, lang, reasons) >>)) >>

InitRender == IsRenderArchive(json) /\ InitLocals

SpecRender == InitRender /\ [][Next]_vars

(***************************************************************************)
(* getOrderedNodeIds step by step, on mappings of any shape: a child list  *)
(* may name a node twice, a node that is missing, or an ancestor.          *)
(***************************************************************************)
Ghost == "ghost"

\* Object.keys of a mapping of nk nodes; the root is the rootPos-th key, or
\* is not in the mapping when rootPos is 0.
WalkKeys(nk, rootPos) ==
  LET plain == [i \in 1..(IF rootPos = 0 THEN nk ELSE nk - 1) |-> NodeId(i)]
  IN IF rootPos = 0 THEN plain
     ELSE SubSeq(plain, 1, rootPos - 1) \o <<RootId>>
          \o SubSeq(plain, rootPos, Len(plain))

\* The mapping with these keys in which edges[e] = <<p, t>> declares the
\* t-th key, or a missing node when t is 0, as the next child of the p-th
\* key.  The root and the bare-th key carry no message; a node without a
\* declared child has no children field.
WalkMapping(nk, rootPos, bare, edges) ==
  LET keys == WalkKeys(nk, rootPos)
      target(t) == IF t = 0 THEN Ghost ELSE keys[t]
      of(p) == SelectSeq(edges, LAMBDA e : e[1] = p)
      children(p) == [j \in 1..Len(of(p)) |-> target(of(p)[j][2])]
      at(id) == CHOOSE p \in 1..nk : keys[p] = id
      structural(p) == keys[p] = RootId \/ p = bare
  IN [keys |-> keys,
      node |-> [id \in {keys[p] : p \in 1..nk} |->
                  IF structural(at(id))
                  THEN IF children(at(id)) = <<>> THEN [id |-> id]
                       ELSE [id |-> id, children |-> children(at(id))]
                  ELSE IF children(at(id)) = <<>> THEN [id |-> id, message |-> mUser]
                       ELSE [id |-> id, message |-> mUser,
                             children |-> children(at(id))]]]

IsWalkArchive(a) ==
  \E nk \in 0..MaxNodes, ne \in 0..MaxEdges :
    \E rootPos \in 0..nk, bare \in 0..nk,
       edges \in [1..ne -> (1..nk) \X (0..nk)] :
      a = << Conversation(1, <<"A">>, WalkMapping(nk, rootPos, bare, edges)) >>

InitWalk == IsWalkArchive(json) /\ InitLocals

RangeError == [thrown |-> TRUE, conv |-> 1, name |-> "RangeError"]

Top == stack[Len(stack)]
NextChild == Children(Current.mapping, Top.id)[Top.i]
Advance == [stack EXCEPT ![Len(stack)].i = @ + 1]

\* Lines 176-186: the call walk(rootId)
WalkStart ==
  /\ pc = "loop" /\ ci <= Len(json)
  /\ LET rootId == WalkRootId(Current.mapping)
     IN IF Walkable(Current.mapping, rootId)
        THEN ordered' = <<rootId>> /\ stack' = <<[id |-> rootId, i |-> 1]>>
        ELSE ordered' = <<>> /\ stack' = <<>>
  /\ pc' = "walk"
  /\ UNCHANGED <<json, files, log, ci, error, filePath, title, metadata,
                 orderedMessages, mi, inCallout, parts, markdownContent>>

\* Lines 179-182: forEach calls walk on the next child, which is pushed
WalkEnter ==
  /\ pc = "walk" /\ stack # <<>>
  /\ Top.i <= Len(Children(Current.mapping, Top.id))
  /\ Walkable(Current.mapping, NextChild)
  /\ Len(stack) < MaxStack
  /\ ordered' = Append(ordered, NextChild)
  /\ stack' = Append(Advance, [id |-> NextChild, i |-> 1])
  /\ UNCHANGED <<json, files, log, pc, ci, error, filePath, title, metadata,
                 orderedMessages, mi, inCallout, parts, markdownContent>>

\* Line 179: the next child is not in the mapping and the call returns
WalkSkip ==
  /\ pc = "walk" /\ stack # <<>>
  /\ Top.i <= Len(Children(Current.mapping, Top.id))
  /\ ~Walkable(Current.mapping, NextChild)
  /\ stack' = Advance
  /\ UNCHANGED <<json, files, log, pc, ci, error, filePath, title, metadata,
                 orderedMessages, mi, inCallout, parts, markdownContent, ordered>>

\* Line 182: forEach is through the children and the call returns
WalkLeave ==
  /\ pc = "walk" /\ stack # <<>>
  /\ Top.i > Len(Children(Current.mapping, Top.id))
  /\ stack' = SubSeq(stack, 1, Len(stack) - 1)
  /\ UNCHANGED <<json, files, log, pc, ci, error, filePath, title, metadata,
                 orderedMessages, mi, inCallout, parts, markdownContent, ordered>>

\* Lines 179-182 with the call stack of the engine exhausted: the call
\* raises a RangeError that nothing catches.
WalkOverflow ==
  /\ pc = "walk" /\ stack # <<>>
  /\ Top.i <= Len(Children(Current.mapping, Top.id))
  /\ Walkable(Current.mapping, NextChild)
  /\ Len(stack) >= MaxStack
  /\ error' = RangeError
  /\ pc' = "failed"
  /\ UNCHANGED <<json, files, log, ci, filePath, title, metadata,
                 orderedMessages, mi, inCallout, parts, markdownContent,
                 ordered, stack>>

\* Lines 187 and 357-359: the walk returns and the filter runs
WalkReturn ==
  /\ pc = "walk" /\ stack = <<>>
  /\ orderedMessages' =
       SelectSeq(ordered, LAMBDA id : shouldIncludeMessage(Current.mapping.node[id]))
  /\ pc' = "walked"
  /\ UNCHANGED <<json, files, log, ci, error, filePath, title, metadata,
                 mi, inCallout, parts, markdownContent, ordered, stack>>

NextWalk ==
  \/ WalkStart
  \/ WalkEnter
  \/ WalkSkip
  \/ WalkLeave
  \/ WalkOverflow
  \/ WalkReturn

SpecWalk == InitWalk /\ [][NextWalk]_vars

\* The engine keeps running the call until it returns or fails.
SpecWalkFair == SpecWalk /\ WF_vars(NextWalk)

(***************************************************************************)
(* Definitions the properties are stated with.                             *)
(***************************************************************************)
\* The nodes of a conversation that carry a message, in rendering order.
MessageNodes(conversation) ==
  LET ids == getOrderedNodeIds(conversation)
      ns == [i \in 1..Len(ids) |-> conversation.mapping.node[ids[i]]]
  IN SelectSeq(ns, LAMBDA n : Has(n, "message"))

\* The assembler run over a sequence of nodes in one go.
RECURSIVE AssembleAll(_, _)
AssembleAll(ns, inC) ==
  IF ns = <<>> THEN ClosingParts(inC)
  ELSE IF IsReason(Head(ns))
       THEN ReasoningParts(Head(ns), inC) \o AssembleAll(Tail(ns), TRUE)
       ELSE NormalParts(Head(ns), inC) \o AssembleAll(Tail(ns), InCalloutAfterNormal(inC))

\* The body of the document of a sequence of nodes.
RenderedBody(ns) == Join(AssembleAll(SelectSeq(ns, shouldIncludeMessage), FALSE), <<>>)

Without(ns, k) == SubSeq(ns, 1, k - 1) \o From(ns, k + 1)

Count(ss, x) == Cardinality({i \in 1..Len(ss) : ss[i] = x})

RenderedNode(i) == Current.mapping.node[orderedMessages[i]]

\* The conversation i has been written.
Written(i) == i < ci \/ (i = ci /\ pc = "utimes")

WritesOf(i) == {k \in 1..Len(log) : log[k].op = "writeFile" /\ log[k].conv = i}

\* A step of the loop over orderedMessages that renders a reasoning message.
ReasoningStep ==
  /\ pc = "render" /\ mi <= Len(orderedMessages) /\ IsReason(CurrentNode)
  /\ mi' = mi + 1

\* What that step pushed.
Pushed == SubSeq(parts', Len(parts) + 1, Len(parts'))

(***************************************************************************)
(* Properties                                                              *)
(***************************************************************************)
ReasonRuns ==
  Cardinality({i \in 1..Len(orderedMessages) :
                 /\ IsReason(RenderedNode(i))
                 /\ (i = 1 \/ ~IsReason(RenderedNode(i - 1)))})
ReasonCount == Cardinality({i \in 1..Len(orderedMessages) : IsReason(RenderedNode(i))})
NestedHeaderCount ==
  Cardinality({i \in 1..Len(parts) : StartsWith(parts[i], <<">", ">", " ", "[", "!">>)})

\* C1: in the assembled body every maximal run of k reasoning messages has
\* one outer opening marker, k nested block headers and k-1 sibling
\* separators, so a body has as many openers as it has runs, as many nested
\* headers as reasoning messages, and the difference in separators.
C1_OneOpenerPerRun ==
  pc = "write" =>
    /\ Count(parts, Opener) = ReasonRuns
    /\ NestedHeaderCount = ReasonCount
    /\ Count(parts, Separator) = ReasonCount - ReasonRuns

\* C2: a normal message processed while the assembler is in a callout
\* closes the callout, so after any normal message the state is Idle.
C2_IdleAfterNormal ==
  (pc \in {"render", "write"} /\ mi > 1 /\ ~IsReason(RenderedNode(mi - 1)))
    => inCallout = FALSE

\* C3: every conversation reached without an error is written by exactly
\* one writeFile call, whose content is the front matter, the title line
\* and the rendered body in that order, each pair two newlines apart, also
\* when nothing of it is rendered; a conversation not yet reached has none.
C3_OneDocument ==
  \A i \in 1..Len(json) :
    IF Written(i)
    THEN /\ Cardinality(WritesOf(i)) = 1
         /\ \A k \in WritesOf(i) :
              /\ log[k].path = FilePath(json[i])
              /\ log[k].content =
                   FrontMatter(json[i]) \o NLNL \o TitleLine(json[i]) \o NLNL
                   \o RenderedBody(MessageNodes(json[i]))
    ELSE WritesOf(i) = {}

\* Three conversations or fewer, all written: one of an empty mapping or of
\* a root alone, and one with a rendered message.
C3_Witness ==
  /\ pc = "done" /\ Len(json) >= 2
  /\ MessageNodes(json[1]) = <<>>
  /\ OrderedMessages(json[2]) # <<>>
  /\ Cardinality(WritesOf(1)) = 1 /\ Cardinality(WritesOf(2)) = 1

\* C4: no document is silently overwritten: when the run returns, every
\* document that was written is still the content of some file, or the
\* collision was signalled by an error.
C4_NoSilentOverwrite ==
  pc = "done" =>
    \A k \in 1..Len(log) :
      log[k].op = "writeFile" =>
        \/ \E p \in DOMAIN files : files[p].content = log[k].content
        \/ error.thrown

\* The messages the visibility filter is specified to exclude.
Excluded(n) ==
  LET meta == NodeMeta(n)
      msg == n.message
  IN \/ (Has(meta, "is_visually_hidden_from_conversation")
         /\ meta.is_visually_hidden_from_conversation)
     \/ Field(meta, "reasoning_status") = "reasoning_ended"
     \/ (msg.author.role = "system" /\ Has(msg.content, "parts")
         /\ Trim(PartsJoin(msg.content, <<>>)) = <<>>)
     \/ (msg.author.role = "assistant"
         /\ (JsonHasBannedKey(suspectText(msg))
             \/ HasKeyColon(suspectText(msg), "\"search_query\"")))

\* C5: an excluded message contributes nothing to the body: the assembled
\* body is the body of the same sequence of messages without it.
C5_ExcludedContributesNothing ==
  pc = "write" =>
    LET ns == MessageNodes(Current)
    IN \A k \in 1..Len(ns) :
         Excluded(ns[k]) => Join(parts, <<>>) = RenderedBody(Without(ns, k))

\* An excluded message between two reasoning messages of one callout.
C5_Witness ==
  /\ pc = "write"
  /\ LET ns == MessageNodes(Current)
     IN /\ Len(ns) = 3 /\ IsReason(ns[1]) /\ Excluded(ns[2]) /\ IsReason(ns[3])
        /\ ~Excluded(ns[1]) /\ ~Excluded(ns[3])
        /\ Count(parts, Opener) = 1 /\ Count(parts, Separator) = 1

\* The body lines of a reasoning message as the assembler reads them.
BodyLines(node) == ContentLines(nodeToMarkdown(node, TRUE))

FirstNonBlank(lines) ==
  LET nonBlank == {i \in 1..Len(lines) : Trim(lines[i]) # <<>>}
  IN IF nonBlank = {} THEN 0 ELSE SetMin(nonBlank)

\* A markdown heading of level 5: five "#", then a space or the end.
IsLevel5Heading(t) == StartsWith(t, H5) /\ (Len(t) = 5 \/ IsWS(t[6]))
HeadingText(t) == Trim(From(t, 6))

NestedLines(lines) == [j \in 1..Len(lines) |-> NestedLine(lines[j])]

ExactLink(t) ==
  /\ Len(t) >= 6 /\ t[1] = "[" /\ t[Len(t)] = ")"
  /\ t[Len(t) - 1] \in UrlTokens /\ t[Len(t) - 2] = "(" /\ t[Len(t) - 3] = "]"
  /\ \A k \in 2..(Len(t) - 4) : t[k] \notin {"[", "]"}

\* The lines of a message as the archive holds them: its content and the
\* links of its search results.
SourceLines(node) ==
  LET src == ContentBody(node.message.content) \o extractSearchResults(NodeMeta(node))
      ls == Split(src)
  IN SelectSeq([i \in 1..Len(ls) |-> Trim(ls[i])], LAMBDA l : l # <<>>)

SolelyLinks(node) ==
  /\ SourceLines(node) # <<>>
  /\ \A i \in 1..Len(SourceLines(node)) : ExactLink(SourceLines(node)[i])

\* C7: a reasoning message whose body is solely markdown links, one per
\* line, is link-only: its nested header is the Links header and the
\* nested block holds those link lines, wherever the links come from.
C7_LinkOnly ==
  [][(ReasoningStep /\ SolelyLinks(CurrentNode)) =>
       /\ Pushed[2] = LinksHeader
       /\ SubSeq(Pushed, 3, Len(Pushed)) = NestedLines(SourceLines(CurrentNode))]_vars

\* No conversation after i has written the path of conversation i.
LastWriter(i) ==
  \A j \in (i + 1)..Len(json) : Written(j) => FilePath(json[j]) # FilePath(json[i])

\* C8: the file of a written conversation gets the conversation's
\* update_time as modification time and create_time as access time, never
\* the wall clock; the utimes call follows the write of the same file and
\* precedes the next conversation.
C8_Timestamps ==
  /\ \A i \in 1..Len(json) :
       (i < ci /\ LastWriter(i)) =>
         /\ files[FilePath(json[i])].mtime = json[i].update_time
         /\ files[FilePath(json[i])].atime = json[i].create_time
  /\ Len(log) = 2 * (ci - 1) + (IF pc = "utimes" THEN 1 ELSE 0)
  /\ \A k \in 1..Len(log) :
       IF k % 2 = 1
       THEN log[k].op = "writeFile" /\ log[k].conv = (k + 1) \div 2
       ELSE /\ log[k].op = "utimes" /\ log[k].conv = k \div 2
            /\ log[k].path = log[k - 1].path
            /\ log[k].mtime = json[k \div 2].update_time
            /\ log[k].atime = json[k \div 2].create_time

\* Two conversations written to two files, the second being processed
\* after the utimes call of the first.
C8_Witness ==
  /\ pc = "done" /\ Len(json) = 2 /\ Cardinality(DOMAIN files) = 2
  /\ \A i \in 1..2 : /\ files[FilePath(json[i])].mtime = json[i].update_time
                     /\ files[FilePath(json[i])].mtime # Now
                     /\ json[i].update_time # json[i].create_time

\* C9: a message whose rendering throws ends the run with the error that
\* carries the node; nothing is written while a conversation is rendered,
\* so neither that conversation nor a later one has a document or a utimes
\* call, the files of the earlier ones stay as they are, and no step
\* follows the failure.
C9_RenderErrorIsFatal ==
  [][/\ pc = "render" => (files' = files /\ log' = log)
     /\ (pc = "render" /\ mi <= Len(orderedMessages)
         /\ nodeToMarkdownThrows(CurrentNode)) =>
          /\ pc' = "failed"
          /\ error'.thrown /\ error'.node = CurrentNode
          /\ \A k \in 1..Len(log') : log'[k].conv < ci'
     /\ pc # "failed"]_vars

\* The second conversation fails after the first was written.
C9_Witness ==
  /\ pc = "failed" /\ ci = 2 /\ error.thrown
  /\ FilePath(json[1]) \in DOMAIN files
  /\ files[FilePath(json[1])].mtime = json[1].update_time
  /\ Len(log) = 2

\* C10: rendering leaves the archive as it was parsed: no step changes a
\* message, so no metadata gains a __wrap_callout flag.
C10_ArchiveUnchanged == [][json' = json]_vars

\* A reasoning message with a metadata object has been rendered.
C10_Witness ==
  /\ pc = "render" /\ mi > 1 /\ IsReason(RenderedNode(mi - 1))
  /\ Has(RenderedNode(mi - 1).message, "metadata")
  /\ ~Has(NodeMeta(RenderedNode(mi - 1)), "__wrap_callout")

(***************************************************************************)
(* Vocabulary of the walk properties.                                      *)
(***************************************************************************)
WalkedMapping == json[1].mapping
Returned == pc = "walked"

\* The child list as the parent declares it.
Declared(id) ==
  IF Has(WalkedMapping.node[id], "children") THEN WalkedMapping.node[id].children
  ELSE <<>>

\* The declared children that are nodes of the mapping.
Kids(id) ==
  {Declared(id)[j] : j \in 1..Len(Declared(id))} \cap DOMAIN WalkedMapping.node

\* The nodes that child lists lead to from the nodes of S, S included.
RECURSIVE Reach(_)
Reach(S) ==
  LET T == S \cup UNION {Kids(id) : id \in S}
  IN IF T = S THEN S ELSE Reach(T)

Descendants(id) == Reach(Kids(id))

StartNode ==
  IF RootId \in DOMAIN WalkedMapping.node THEN {RootId}
  ELSE IF WalkedMapping.keys # <<>> THEN {WalkedMapping.keys[1]} ELSE {}

Reachable == Reach(StartNode)

\* The places of child lists of reachable nodes that name id.
Entries(id) ==
  {pj \in Reachable \X (1..MaxEdges) :
     pj[2] <= Len(Declared(pj[1])) /\ Declared(pj[1])[pj[2]] = id}

\* Every reachable node is declared once, by one parent; the start by none.
TreeShaped ==
  \A id \in Reachable :
    Cardinality(Entries(id)) = (IF id \in StartNode THEN 0 ELSE 1)

Places(id) == {k \in 1..Len(ordered) : ordered[k] = id}
First(id) == SetMin(Places(id))

C12_NoRepeat ==
  Returned =>
    /\ \A id \in DOMAIN WalkedMapping.node : Cardinality(Places(id)) <= 1
    /\ \A i, j \in 1..Len(orderedMessages) :
         orderedMessages[i] = orderedMessages[j] => i = j

\* C15: on every mapping the call of getOrderedNodeIds returns.
C15_WalkReturns == <>Returned

(***************************************************************************)
(* Vocabulary of the render properties.                                    *)
(***************************************************************************)
\* A step of the loop over orderedMessages that renders a normal message.
NormalStep ==
  /\ pc = "render" /\ mi <= Len(orderedMessages) /\ ~IsReason(CurrentNode)
  /\ mi' = mi + 1

Contains(s, t) == \E i \in 0..(Len(s) - Len(t)) : SubSeq(s, i + 1, i + Len(t)) = t

\* The positions of a text where a citation placeholder of a one-token
\* identifier starts.
PlaceholderStarts(text) ==
  {i \in 1..(Len(text) - 4) :
     /\ text[i] = PUA /\ text[i + 1] = "cite" /\ text[i + 2] = PUA
     /\ text[i + 3] # PUA /\ text[i + 4] = PUA}

\* The text with every placeholder replaced by the link the citation map
\* holds for its identifier, or by nothing.
Resolved(text, map) ==
  LET starts == PlaceholderStarts(text)
      piece(k) ==
        IF k \in starts
        THEN IF <<text[k + 3]>> \in DOMAIN map THEN map[<<text[k + 3]>>] ELSE <<>>
        ELSE IF \E i \in starts : i < k /\ k <= i + 4 THEN <<>>
        ELSE <<text[k]>>
  IN Join([k \in 1..Len(text) |-> piece(k)], <<>>)

IsCiting(node) ==
  /\ node.message.content.content_type = "text"
  /\ PlaceholderStarts(node.message.content.parts[1]) # {}

\* C13: the body of a rendered message holds its text with every citation
\* placeholder replaced by exactly the link of the citation map, or by
\* nothing when the map has no such identifier, followed by the appended
\* lists; no later step changes a resolved link.
C13_CitationResolved ==
  [][(NormalStep /\ CurrentNode.message.author.role # "user"
        /\ IsCiting(CurrentNode) /\ Pushed # <<>> /\ Pushed[1] # <<>>) =>
       LET meta == NodeMeta(CurrentNode)
       IN Contains(Pushed[1],
                   Resolved(CurrentNode.message.content.parts[1], buildCitationMap(meta))
                   \o extractCitations(meta) \o extractSearchResults(meta))]_vars

IsCode(node) ==
  /\ node.message.content.content_type = "code"
  /\ Has(node.message.content, "language")

\* C14: the opening fence of a code content carries no language tag when
\* the declared language is "unknown" and the declared language unchanged
\* otherwise.
C14_LanguageTag ==
  [][(NormalStep /\ CurrentNode.message.author.role # "user"
        /\ IsCode(CurrentNode) /\ Pushed # <<>> /\ Pushed[1] # <<>>) =>
       LET lang == CurrentNode.message.content.language
       IN Contains(Pushed[1],
                   FENCE \o (IF lang = <<"unknown">> THEN <<>> ELSE lang) \o NL
                   \o CurrentNode.message.content.text)]_vars

\* One reasoning message processed by the assembler whose rendered body is
\* empty or blank.
BlankReasoningStep ==
  ReasoningStep /\ Trim(nodeToMarkdown(CurrentNode, TRUE)) = <<>>

\* C16: a reasoning message with an empty rendered body gets the outer
\* opener or the sibling separator and the nested block header, and no
\* nested body line after it.
C16_EmptyNestedBody ==
  [][BlankReasoningStep =>
       /\ Len(Pushed) = 2
       /\ Pushed[1] \in {Opener, Separator}
       /\ Pushed[2] = ExampleHeader(<<"Reasoning">>)]_vars

QuoteDepth(line) ==
  LET other == {i \in 1..Len(line) : line[i] # ">"}
  IN IF other = {} THEN Len(line) ELSE SetMin(other) - 1

\* The content of a nested line: what follows its markers and the space.
NestedContent(line) ==
  LET rest == From(line, QuoteDepth(line) + 1)
  IN IF rest # <<>> /\ rest[1] = " " THEN Tail(rest) ELSE rest

\* C17: every nested body line of a reasoning message is emitted with the
\* two-level prefix followed by content that begins with no quote marker,
\* and the opener or separator before it carries one quote marker.
C17_QuoteDepth ==
  [][ReasoningStep =>
       /\ QuoteDepth(Pushed[1]) = 1
       /\ \A k \in 2..Len(Pushed) :
            /\ StartsWith(Pushed[k], <<">", ">">>)
            /\ QuoteDepth(Pushed[k]) = 2
            /\ QuoteDepth(NestedContent(Pushed[k])) = 0]_vars

\* The last rendered message of conversation i is a reasoning message.
EndsInCallout(i) ==
  LET ids == OrderedMessages(json[i])
  IN ids # <<>> /\ IsReason(json[i].mapping.node[ids[Len(ids)]])

\* C18: the assembler is Idle when the render pass of a conversation starts,
\* so the first reasoning message of a conversation gets the outer opener,
\* and the body assembled for a conversation is the body of that
\* conversation rendered alone, whatever was rendered before it.
C18_FreshAssembler ==
  /\ (pc = "render" /\ mi = 1) => ~inCallout
  /\ (pc = "render" /\ mi > 1 /\ IsReason(RenderedNode(1))) => parts[1] = Opener
  /\ pc = "write" => Join(parts, <<>>) = RenderedBody(MessageNodes(Current))

\* The second conversation starts with a reasoning message after a first
\* conversation that ended with one, and has been assembled.
C18_Witness ==
  /\ pc = "write" /\ ci = 2
  /\ EndsInCallout(1)
  /\ orderedMessages # <<>>
  /\ IsReason(RenderedNode(1))
  /\ parts[1] = Opener
====
